---- MODULE Spec2Model ----
(***************************************************************************)
(* Model of pdfan's concurrency core:                                      *)
(*   - WorkerPool / Packet / spawn_worker        (src/src/worker.rs)       *)
(*   - ChromeTask::process, the retry wrapper    (src/src/chrome.rs)       *)
(*   - Supervisor::run / Supervisor::stop        (src/src/driver.rs)       *)
(*   - wait_for_network_idle                     (src/src/wait.rs)         *)
(* The three subsystems share no state.  Each has its own specification;   *)
(* the variables of the other two stay at their initial values.            *)
(***************************************************************************)
EXTENDS Integers, Sequences, FiniteSets

VARIABLES
    \* ---- WorkerPool (worker.rs) ----
    permits,    \* permits available in the Semaphore
    waiters,    \* FIFO wait list of the Semaphore: callers suspended in acquire_owned
    chan,       \* the unbounded async_channel: sequence of Packets
    cst,        \* per call of queue(): position of the caller's future
    slot,       \* per call: content of its oneshot channel
    ret,        \* per call: value returned by queue()
    wpc,        \* per worker: position inside spawn_worker / ChromeTask::process
    cur,        \* per worker: the Packet it holds
    werr,       \* per worker: the error `e` bound by `Err(e)` in process
    page,       \* per worker: generation of ChromeTaskCtx.page
    \* history of the pool (observers, never read by the actions)
    execs,      \* per task: number of process_inner invocations
    rebuilds,   \* per task: number of successful recreate_page calls made for it
    outs,       \* per task: outcomes of its process_inner executions, in order
    rbout,      \* per task: outcome of the recreate_page made for it
    enq,        \* per call: its Packet was pushed on the channel
    sends,      \* per call: number of values written into its oneshot channel
    tphase,     \* per call: where the deadline caught it
    before,     \* per call: the calls made before it that no worker has pulled yet
    \* ---- Supervisor (driver.rs) ----
    runpc,      \* per definition: position of its run() call
    rxq,        \* per loop: Interrupts waiting in its broadcast Receiver
    lpc,        \* per loop: position of the spawned control loop
    proc,       \* per loop: the Option<T::Proc> it holds
    alive,      \* per loop: the process behind the held handle is running
    orphans,    \* per loop: running processes whose handle was dropped
    tasks,      \* Supervisor.tasks: the JoinHandles pushed and not yet taken
    spc,        \* per stop() call: its position
    handles,    \* per stop() call: the JoinHandles it took
    atSend,     \* history, per stop() call: the loops started before it began
    \* ---- wait_for_network_idle (wait.rs) ----
    kind,       \* the NetworkIdleKind argument
    stream,     \* what the page does: "any" events, "hold1" (one request kept
                \* open) or "done1" (one request that started and finished)
    lst,        \* per listener, when the page's events are known in advance:
                \* the ids of its events that its collector has not taken yet
    evq,        \* the mpsc channel of NetworkEvents
    senders,    \* the collector tasks still running (each owns one Sender clone)
    pending_requests,
    idle_since, \* <<>> for None, <<e>> for Some(instant) with e = ms elapsed since
    sleepLeft,  \* ms until the `timeout` sleep of this loop iteration fires
    ipc,        \* "loop" or "returned"
    \* history of the detector
    quiet,      \* ms since count > max_connections or a RequestStarted was processed
    why         \* which `break` ended the loop

poolVars == <<permits, waiters, chan, cst, slot, ret, wpc, cur, werr, page,
              execs, rebuilds, outs, rbout, enq, sends, tphase,
              before>>

supVars == <<runpc, rxq, lpc, proc, alive, orphans, tasks, spc, handles,
             atSend>>

idleVars == <<kind, stream, lst, evq, senders, pending_requests, idle_since,
              sleepLeft, ipc, quiet, why>>

vars == <<poolVars, supVars, idleVars>>

----------------------------------------------------------------------------
(* Bounds of the pool model. *)
NumTasks == 3
Cap == 2
Workers == 1

\* the calls of queue(); call c submits task c.  The last call is made only in
\* SpecBurst, the others in every specification.
Tasks == 1..(NumTasks + 1)
WorkerIds == 1..Workers

(* Packet { task, tx, _permit }: the permit is the one unit the Packet holds. *)
NoPacket == [task |-> 0, tx |-> 0]
Packet(task, tx) == [task |-> task, tx |-> tx]

(* T::Result of ChromeTask: Ok(bytes) / Err(report), tagged with the task and
   the process_inner attempt that produced it. *)
Ok(t, attempt) == <<t, "ok", attempt>>
Err(t, attempt) == <<t, "err", attempt>>
RecreateErr(t) == <<t, "recreate_failed", 0>>
Empty == <<0, "empty", 0>>

(* Values returned by queue(). *)
TaskTimedOut == <<"Task timed out">>
SendFailed == <<"Could not send to worker queue">>
Returned(result) == <<"Ok", result>>

(* oneshot::Sender::is_closed: the receiver half was dropped.  The receiver
   lives inside the future of queue() from the creation of the channel until
   that future completes or is dropped by the timeout. *)
\* mutant: a Sender never sees its receiver gone
is_closedNever(tx) == FALSE

is_closed(tx) == cst[tx] # "waiting"

(* async_channel closes when the last Receiver is dropped; each worker owns one
   clone and drops it when its task ends. *)
ChannelClosed == \A w \in WorkerIds : wpc[w] = "dead"

\* WorkerPool::new(cap, workers, make_ctx), and n calls of queue() to come
PoolInitWith(cap, n) ==
    /\ permits = cap
    /\ waiters = <<>>
    /\ chan = <<>>
    /\ cst = [c \in Tasks |-> IF c <= n THEN "new" ELSE "unused"]
    /\ slot = [c \in Tasks |-> Empty]
    /\ ret = [c \in Tasks |-> <<>>]
    /\ wpc = [w \in WorkerIds |-> "init"]
    /\ cur = [w \in WorkerIds |-> NoPacket]
    /\ werr = [w \in WorkerIds |-> Empty]
    /\ page = [w \in WorkerIds |-> 0]
    /\ execs = [t \in Tasks |-> 0]
    /\ rebuilds = [t \in Tasks |-> 0]
    /\ outs = [t \in Tasks |-> <<>>]
    /\ rbout = [t \in Tasks |-> "none"]
    /\ enq = [c \in Tasks |-> FALSE]
    /\ sends = [c \in Tasks |-> 0]
    /\ tphase = [c \in Tasks |-> "none"]
    /\ before = [c \in Tasks |-> {}]

PoolInit == PoolInitWith(Cap, NumTasks)

----------------------------------------------------------------------------
(* Semaphore (tokio batch semaphore): fair, released permits go to the head
   of the wait list and reach the counter only when nobody waits. *)

\* mutant: a dropped permit is not put back when nobody waits
AvailableAfterReleaseLost == permits

AvailableAfterRelease == IF waiters = <<>> THEN permits + 1 ELSE permits

WaitersAfterRelease == IF waiters = <<>> THEN waiters ELSE Tail(waiters)

\* the callers' positions after a permit was dropped, starting from `cs`
GrantAfterRelease(cs) ==
    IF waiters = <<>> THEN cs ELSE [cs EXCEPT ![Head(waiters)] = "granted"]

(* Packet::new followed by self.tx.send(packet): the tail of queue() once the
   permit is held.  On a closed channel the Packet comes back in the SendError
   and is dropped there, which releases its permit. *)
PacketNew(c) == Packet(c, c)

SendPacket(c, avail) ==
    IF ChannelClosed
    THEN /\ ret' = [ret EXCEPT ![c] = SendFailed]
         /\ permits' = (IF waiters = <<>> THEN avail + 1 ELSE avail)
         /\ waiters' = WaitersAfterRelease
         /\ cst' = GrantAfterRelease([cst EXCEPT ![c] = "returned"])
         /\ UNCHANGED <<chan, enq>>
    ELSE /\ chan' = Append(chan, PacketNew(c))
         /\ enq' = [enq EXCEPT ![c] = TRUE]
         /\ cst' = [cst EXCEPT ![c] = "waiting"]
         /\ permits' = avail
         /\ UNCHANGED <<ret, waiters>>

\* call d was made and its Packet, queued or still to be queued, awaits a worker
AwaitsWorker(d) ==
    \/ cst[d] \in {"acquiring", "granted"}
    \/ \E i \in 1..Len(chan) : chan[i].tx = d

\* the calls made before each call, once call d left the calls awaiting a worker
BeforeWithout(d) == [c \in Tasks |-> before[c] \ {d}]

(* queue(): first poll.  acquire_owned either takes a permit at once and the
   future runs on to rx.await, or it joins the wait list. *)
\* mutant: acquire_owned never waits
CanAcquireAlways == TRUE

CanAcquire == permits > 0

Queue(c) ==
    /\ cst[c] = "new"
    /\ IF CanAcquire
       THEN SendPacket(c, permits - 1)
       ELSE /\ waiters' = Append(waiters, c)
            /\ cst' = [cst EXCEPT ![c] = "acquiring"]
            /\ UNCHANGED <<permits, chan, enq, ret>>
    /\ before' = [before EXCEPT ![c] = {d \in Tasks : AwaitsWorker(d)}]
    /\ UNCHANGED <<slot, wpc, cur, werr, page, execs, rebuilds, outs, rbout,
                   sends, tphase>>
    /\ UNCHANGED <<supVars, idleVars>>

(* queue(): the poll after the semaphore handed this caller a permit. *)
Admit(c) ==
    /\ cst[c] = "granted"
    /\ SendPacket(c, permits)
    /\ UNCHANGED <<slot, wpc, cur, werr, page, execs, rebuilds, outs, rbout,
                   sends, tphase>>
    /\ UNCHANGED before
    /\ UNCHANGED <<supVars, idleVars>>

\* mutant: the dropped Acquire future stays on the wait list
RemoveWaiterKeeps(c) == waiters

(* tokio::time::timeout elapses while acquire_owned is pending: the Acquire
   future is dropped and leaves the wait list. *)
RemoveWaiter(c) == SelectSeq(waiters, LAMBDA x : x # c)

TimeoutAcquire(c) ==
    /\ cst[c] = "acquiring"
    /\ waiters' = RemoveWaiter(c)
    /\ cst' = [cst EXCEPT ![c] = "returned"]
    /\ ret' = [ret EXCEPT ![c] = TaskTimedOut]
    /\ tphase' = [tphase EXCEPT ![c] = "admission"]
    /\ before' = BeforeWithout(c)
    /\ UNCHANGED <<permits, chan, slot, wpc, cur, werr, page, execs, rebuilds,
                   outs, rbout, enq, sends>>
    /\ UNCHANGED <<supVars, idleVars>>

\* mutant: the deadline also aborts the worker that runs the task
TimeoutResultCancels(c) ==
    /\ cst[c] = "waiting"
    /\ slot[c] = Empty
    /\ cst' = [cst EXCEPT ![c] = "returned"]
    /\ ret' = [ret EXCEPT ![c] = TaskTimedOut]
    /\ tphase' = [tphase EXCEPT ![c] = "result"]
    /\ wpc' = [w \in WorkerIds |->
                 IF cur[w].tx = c /\ wpc[w] \in {"inner1", "recreate", "inner2"}
                 THEN "recv" ELSE wpc[w]]
    /\ cur' = [w \in WorkerIds |-> IF cur[w].tx = c THEN NoPacket ELSE cur[w]]
    /\ UNCHANGED <<permits, waiters, chan, slot, werr, page, execs,
                   rebuilds, outs, rbout, enq, sends>>
    /\ UNCHANGED before
    /\ UNCHANGED <<supVars, idleVars>>

(* timeout elapses while rx.await is pending (timeout polls the inner future
   first, so a value already in the oneshot wins): rx is dropped. *)
TimeoutResult(c) ==
    /\ cst[c] = "waiting"
    /\ slot[c] = Empty
    /\ cst' = [cst EXCEPT ![c] = "returned"]
    /\ ret' = [ret EXCEPT ![c] = TaskTimedOut]
    /\ tphase' = [tphase EXCEPT ![c] = "result"]
    /\ UNCHANGED <<permits, waiters, chan, slot, wpc, cur, werr, page, execs,
                   rebuilds, outs, rbout, enq, sends>>
    /\ UNCHANGED before
    /\ UNCHANGED <<supVars, idleVars>>

(* rx.await completes with the value the worker sent. *)
Receive(c) ==
    /\ cst[c] = "waiting"
    /\ slot[c] # Empty
    /\ cst' = [cst EXCEPT ![c] = "returned"]
    /\ ret' = [ret EXCEPT ![c] = Returned(slot[c])]
    /\ UNCHANGED <<permits, waiters, chan, slot, wpc, cur, werr, page, execs,
                   rebuilds, outs, rbout, enq, sends, tphase>>
    /\ UNCHANGED before
    /\ UNCHANGED <<supVars, idleVars>>

----------------------------------------------------------------------------
(* spawn_worker *)

\* make_ctx().await.unwrap()
MakeCtxOk(w) ==
    /\ wpc[w] = "init"
    /\ wpc' = [wpc EXCEPT ![w] = "recv"]
    /\ UNCHANGED <<permits, waiters, chan, cst, slot, ret, cur, werr, page,
                   execs, rebuilds, outs, rbout, enq, sends, tphase>>
    /\ UNCHANGED before
    /\ UNCHANGED <<supVars, idleVars>>

MakeCtxFail(w) ==
    /\ wpc[w] = "init"
    /\ wpc' = [wpc EXCEPT ![w] = "dead"]
    /\ UNCHANGED <<permits, waiters, chan, cst, slot, ret, cur, werr, page,
                   execs, rebuilds, outs, rbout, enq, sends, tphase>>
    /\ UNCHANGED before
    /\ UNCHANGED <<supVars, idleVars>>

\* mutant: a worker pulls the next Packet while it still runs one
CanPullBusy(w) == wpc[w] \notin {"init", "dead"}

\* the worker is suspended in `rx.recv().await`, holding no Packet
CanPull(w) == wpc[w] = "recv"

\* mutant: the permit goes back to the semaphore when execution starts
RecvReleasesAtStart(w) ==
    /\ CanPull(w)
    /\ chan # <<>>
    /\ LET packet == Head(chan) IN
       /\ chan' = Tail(chan)
       /\ before' = BeforeWithout(packet.tx)
       /\ permits' = AvailableAfterRelease
       /\ waiters' = WaitersAfterRelease
       /\ cst' = GrantAfterRelease(cst)
       /\ IF is_closed(packet.tx)
          THEN UNCHANGED <<wpc, cur, execs>>
          ELSE /\ cur' = [cur EXCEPT ![w] = packet]
               /\ wpc' = [wpc EXCEPT ![w] = "inner1"]
               /\ execs' = [execs EXCEPT ![packet.task] = @ + 1]
    /\ UNCHANGED <<slot, ret, werr, page, rebuilds, outs, rbout, enq, sends,
                   tphase>>
    /\ UNCHANGED <<supVars, idleVars>>

(* rx.recv() yields the head Packet; `if packet.tx.is_closed() { continue; }`
   drops it (and its permit) unexecuted, otherwise process() is entered and
   its first process_inner starts. *)
Recv(w) ==
    /\ CanPull(w)
    /\ chan # <<>>
    /\ LET packet == Head(chan) IN
       /\ chan' = Tail(chan)
       /\ before' = BeforeWithout(packet.tx)
       /\ IF is_closed(packet.tx)
          THEN /\ permits' = AvailableAfterRelease
               /\ waiters' = WaitersAfterRelease
               /\ cst' = GrantAfterRelease(cst)
               /\ UNCHANGED <<wpc, cur, execs>>
          ELSE /\ cur' = [cur EXCEPT ![w] = packet]
               /\ wpc' = [wpc EXCEPT ![w] = "inner1"]
               /\ execs' = [execs EXCEPT ![packet.task] = @ + 1]
               /\ UNCHANGED <<permits, waiters, cst>>
    /\ UNCHANGED <<slot, ret, werr, page, rebuilds, outs, rbout, enq, sends,
                   tphase>>
    /\ UNCHANGED <<supVars, idleVars>>

(* Packet::send(result) then the end of the loop body: the value goes into the
   oneshot unless its receiver is gone, and the Packet, consumed by send, is
   dropped with its permit. *)
\* mutant: the result goes to the oneshot of another call
SendTargetOther(packet) == (packet.tx % NumTasks) + 1

SendTarget(packet) == packet.tx

\* mutant: a worker ends when a task fails
AfterSendStopsOnErr(result) == IF result[2] = "err" THEN "dead" ELSE "recv"

\* `let _ = packet.send(result)` ends the loop body: back to rx.recv()
AfterSend(result) == "recv"

Send(w, result) ==
    /\ IF is_closed(SendTarget(cur[w]))
       THEN UNCHANGED <<slot, sends>>
       ELSE /\ slot' = [slot EXCEPT ![SendTarget(cur[w])] = result]
            /\ sends' = [sends EXCEPT ![SendTarget(cur[w])] = @ + 1]
    /\ permits' = AvailableAfterRelease
    /\ waiters' = WaitersAfterRelease
    /\ cst' = GrantAfterRelease(cst)
    /\ cur' = [cur EXCEPT ![w] = NoPacket]
    /\ werr' = [werr EXCEPT ![w] = Empty]
    /\ wpc' = [wpc EXCEPT ![w] = AfterSend(result)]

----------------------------------------------------------------------------
(* ChromeTask::process: the retry wrapper around process_inner *)

\* match self.process_inner(ctx).await { Ok(result) => Ok(result), ...
Inner1Ok(w) ==
    /\ wpc[w] = "inner1"
    /\ outs' = [outs EXCEPT ![cur[w].task] = Append(@, "ok")]
    /\ Send(w, Ok(cur[w].task, 1))
    /\ UNCHANGED <<chan, ret, page, execs, rebuilds, rbout, enq, tphase>>
    /\ UNCHANGED before
    /\ UNCHANGED <<supVars, idleVars>>

\* ... Err(e) => { if ctx.recreate_page().await ...
Inner1Err(w) ==
    /\ wpc[w] = "inner1"
    /\ outs' = [outs EXCEPT ![cur[w].task] = Append(@, "err")]
    /\ werr' = [werr EXCEPT ![w] = Err(cur[w].task, 1)]
    /\ wpc' = [wpc EXCEPT ![w] = "recreate"]
    /\ UNCHANGED <<permits, waiters, chan, cst, slot, ret, cur, page, execs,
                   rebuilds, rbout, enq, sends, tphase>>
    /\ UNCHANGED before
    /\ UNCHANGED <<supVars, idleVars>>

\* recreate_page() is Ok: self.page replaced, then `self.process_inner(ctx).await`
RecreateOk(w) ==
    /\ wpc[w] = "recreate"
    /\ page' = [page EXCEPT ![w] = @ + 1]
    /\ rebuilds' = [rebuilds EXCEPT ![cur[w].task] = @ + 1]
    /\ rbout' = [rbout EXCEPT ![cur[w].task] = "ok"]
    /\ execs' = [execs EXCEPT ![cur[w].task] = @ + 1]
    /\ wpc' = [wpc EXCEPT ![w] = "inner2"]
    /\ UNCHANGED <<permits, waiters, chan, cst, slot, ret, cur, werr, outs,
                   enq, sends, tphase>>
    /\ UNCHANGED before
    /\ UNCHANGED <<supVars, idleVars>>

\* mutant: the error of recreate_page is surfaced instead of `e`
RecreateFailResultRebuild(w) == RecreateErr(cur[w].task)

\* recreate_page() is Err: `else { Err(e) }`
RecreateFailResult(w) == werr[w]

RecreateFail(w) ==
    /\ wpc[w] = "recreate"
    /\ rbout' = [rbout EXCEPT ![cur[w].task] = "failed"]
    /\ Send(w, RecreateFailResult(w))
    /\ UNCHANGED <<chan, ret, page, execs, rebuilds, outs, enq, tphase>>
    /\ UNCHANGED before
    /\ UNCHANGED <<supVars, idleVars>>

\* mutant: a failed retry reports the first failure
RetryResultFirstErr(w, ok) ==
    IF ok THEN Ok(cur[w].task, 2) ELSE werr[w]

\* the value of the second process_inner is the value of process
RetryResult(w, ok) ==
    IF ok THEN Ok(cur[w].task, 2) ELSE Err(cur[w].task, 2)

Inner2Done(w, ok) ==
    /\ wpc[w] = "inner2"
    /\ outs' = [outs EXCEPT ![cur[w].task] = Append(@, IF ok THEN "ok" ELSE "err")]
    /\ Send(w, RetryResult(w, ok))
    /\ UNCHANGED <<chan, ret, page, execs, rebuilds, rbout, enq, tphase>>
    /\ UNCHANGED before
    /\ UNCHANGED <<supVars, idleVars>>

----------------------------------------------------------------------------
PoolNext ==
    \/ \E c \in Tasks : Queue(c)
    \/ \E c \in Tasks : Admit(c)
    \/ \E c \in Tasks : TimeoutAcquire(c)
    \/ \E c \in Tasks : TimeoutResult(c)
    \/ \E c \in Tasks : Receive(c)
    \/ \E w \in WorkerIds : MakeCtxOk(w)
    \/ \E w \in WorkerIds : MakeCtxFail(w)
    \/ \E w \in WorkerIds : Recv(w)
    \/ \E w \in WorkerIds : Inner1Ok(w)
    \/ \E w \in WorkerIds : Inner1Err(w)
    \/ \E w \in WorkerIds : RecreateOk(w)
    \/ \E w \in WorkerIds : RecreateFail(w)
    \/ \E w \in WorkerIds : \E ok \in BOOLEAN : Inner2Done(w, ok)

----------------------------------------------------------------------------
(* Supervisor (driver.rs) *)

(* Bounds of the supervisor model. *)
NumLoops == 1
NumStops == 1
MaxOrphans == 1

Loops == 1..NumLoops
Stops == 1..NumStops

SupInit ==
    /\ runpc = [l \in Loops |-> "none"]
    /\ rxq = [l \in Loops |-> 0]
    /\ lpc = [l \in Loops |-> "none"]
    /\ proc = [l \in Loops |-> "None"]
    /\ alive = [l \in Loops |-> FALSE]
    /\ orphans = [l \in Loops |-> 0]
    /\ tasks = {}
    /\ spc = [s \in Stops |-> "none"]
    /\ handles = [s \in Stops |-> {}]
    /\ atSend = [s \in Stops |-> {}]

(* run(): `let mut rx = self.tx.subscribe()` and tokio::spawn of the loop, whose
   first statement is the initial task.run().  The receiver sees the messages
   sent from now on. *)
RunSubscribeSpawn(l) ==
    /\ runpc[l] = "none"
    /\ runpc' = [runpc EXCEPT ![l] = "spawned"]
    /\ rxq' = [rxq EXCEPT ![l] = 0]
    /\ lpc' = [lpc EXCEPT ![l] = "launch"]
    /\ UNCHANGED <<proc, alive, orphans, tasks, spc, handles, atSend>>
    /\ UNCHANGED <<poolVars, idleVars>>

\* run(): self.tasks.lock().unwrap().push(handle)
RunPush(l) ==
    /\ runpc[l] = "spawned"
    /\ runpc' = [runpc EXCEPT ![l] = "done"]
    /\ tasks' = tasks \cup {l}
    /\ UNCHANGED <<rxq, lpc, proc, alive, orphans, spc, handles, atSend>>
    /\ UNCHANGED <<poolVars, idleVars>>

\* the handle held so far is dropped: a process still running behind it goes on
OrphansAfterDrop(l) == IF alive[l] THEN orphans[l] + 1 ELSE orphans[l]

(* `proc = task.run().await.ok()`, initial or in the second select branch:
   the launch succeeded. *)
LaunchOk(l) ==
    /\ lpc[l] \in {"launch", "relaunch"}
    /\ proc' = [proc EXCEPT ![l] = "Some"]
    /\ orphans' = [orphans EXCEPT ![l] = OrphansAfterDrop(l)]
    /\ alive' = [alive EXCEPT ![l] = TRUE]
    /\ lpc' = [lpc EXCEPT ![l] = "select"]
    /\ UNCHANGED <<runpc, rxq, tasks, spc, handles, atSend>>
    /\ UNCHANGED <<poolVars, idleVars>>

\* the launch failed: .ok() turns the error into None
LaunchFail(l) ==
    /\ lpc[l] \in {"launch", "relaunch"}
    /\ proc' = [proc EXCEPT ![l] = "None"]
    /\ orphans' = [orphans EXCEPT ![l] = OrphansAfterDrop(l)]
    /\ alive' = [alive EXCEPT ![l] = FALSE]
    /\ lpc' = [lpc EXCEPT ![l] = "select"]
    /\ UNCHANGED <<runpc, rxq, tasks, spc, handles, atSend>>
    /\ UNCHANGED <<poolVars, idleVars>>

(* select!, first branch: `Ok(SupervisorSignal::Interrupt) = rx.recv()`.
   With a process held the loop goes into p.stop().await, else it breaks. *)
SelectInterrupt(l) ==
    /\ lpc[l] = "select"
    /\ rxq[l] > 0
    /\ rxq' = [rxq EXCEPT ![l] = IF proc[l] = "Some" THEN @ - 1 ELSE 0]
    /\ lpc' = [lpc EXCEPT ![l] = IF proc[l] = "Some" THEN "stopping" ELSE "exited"]
    /\ UNCHANGED <<runpc, proc, alive, orphans, tasks, spc, handles, atSend>>
    /\ UNCHANGED <<poolVars, idleVars>>

(* `let _ = p.stop().await; break`: the result of stop() is discarded, the
   handle is dropped and the loop task ends, dropping its receiver. *)
StopProc(l, ok) ==
    /\ lpc[l] = "stopping"
    /\ alive' = [alive EXCEPT ![l] = FALSE]
    /\ orphans' = [orphans EXCEPT ![l] = IF ok THEN @ ELSE OrphansAfterDrop(l)]
    /\ proc' = [proc EXCEPT ![l] = "None"]
    /\ rxq' = [rxq EXCEPT ![l] = 0]
    /\ lpc' = [lpc EXCEPT ![l] = "exited"]
    /\ UNCHANGED <<runpc, tasks, spc, handles, atSend>>
    /\ UNCHANGED <<poolVars, idleVars>>

(* select!, second branch: the future `p.wait()` / `sleep(1s)` completed and
   its handler starts task.run().  select! polls its branches in random
   order, so this branch can win while an Interrupt waits in rx. *)
WaitReady(l, ok) ==
    \/ proc[l] = "Some" /\ ok /\ ~alive[l]      \* wait() is Ok: the process exited
    \/ proc[l] = "Some" /\ ~ok                  \* wait() is Err
          /\ (alive[l] => orphans[l] < MaxOrphans)
    \/ proc[l] = "None" /\ ok                   \* the backoff sleep elapsed

SelectWait(l, ok) ==
    /\ lpc[l] = "select"
    /\ WaitReady(l, ok)
    /\ lpc' = [lpc EXCEPT ![l] = "relaunch"]
    /\ UNCHANGED <<runpc, rxq, proc, alive, orphans, tasks, spc, handles, atSend>>
    /\ UNCHANGED <<poolVars, idleVars>>

\* environment: the process behind the held handle exits
ProcExit(l) ==
    /\ alive[l]
    /\ alive' = [alive EXCEPT ![l] = FALSE]
    /\ UNCHANGED <<runpc, rxq, lpc, proc, orphans, tasks, spc,
                   handles, atSend>>
    /\ UNCHANGED <<poolVars, idleVars>>

\* environment: a process whose handle was dropped exits
OrphanExit(l) ==
    /\ orphans[l] > 0
    /\ orphans' = [orphans EXCEPT ![l] = @ - 1]
    /\ UNCHANGED <<runpc, rxq, lpc, proc, alive, tasks, spc,
                   handles, atSend>>
    /\ UNCHANGED <<poolVars, idleVars>>

\* the loops that hold a live broadcast Receiver
Subscribed(l) == runpc[l] # "none" /\ lpc[l] # "exited"

\* stop(): `let _ = self.tx.send(SupervisorSignal::Interrupt)`
StopSend(s) ==
    /\ spc[s] = "none"
    /\ spc' = [spc EXCEPT ![s] = "sent"]
    /\ rxq' = [l \in Loops |-> IF Subscribed(l) THEN rxq[l] + 1 ELSE rxq[l]]
    /\ atSend' = [atSend EXCEPT ![s] = {l \in Loops : runpc[l] # "none"}]
    /\ UNCHANGED <<runpc, lpc, proc, alive, orphans, tasks, handles>>
    /\ UNCHANGED <<poolVars, idleVars>>

\* stop(): `std::mem::take(&mut *self.tasks.lock().unwrap())`
StopTake(s) ==
    /\ spc[s] = "sent"
    /\ spc' = [spc EXCEPT ![s] = "joining"]
    /\ handles' = [handles EXCEPT ![s] = tasks]
    /\ UNCHANGED atSend
    /\ tasks' = {}
    /\ UNCHANGED <<runpc, rxq, lpc, proc, alive, orphans>>
    /\ UNCHANGED <<poolVars, idleVars>>

\* stop(): join_all(handles).await completes
StopReturn(s) ==
    /\ spc[s] = "joining"
    /\ \A l \in handles[s] : lpc[l] = "exited"
    /\ spc' = [spc EXCEPT ![s] = "returned"]
    /\ UNCHANGED <<runpc, rxq, lpc, proc, alive, orphans, tasks,
                   handles, atSend>>
    /\ UNCHANGED <<poolVars, idleVars>>

SupNext ==
    \/ \E l \in Loops : RunSubscribeSpawn(l)
    \/ \E l \in Loops : RunPush(l)
    \/ \E l \in Loops : LaunchOk(l)
    \/ \E l \in Loops : LaunchFail(l)
    \/ \E l \in Loops : SelectInterrupt(l)
    \/ \E l \in Loops : \E ok \in BOOLEAN : StopProc(l, ok)
    \/ \E l \in Loops : \E ok \in BOOLEAN : SelectWait(l, ok)
    \/ \E l \in Loops : ProcExit(l)
    \/ \E l \in Loops : OrphanExit(l)
    \/ \E s \in Stops : StopSend(s)
    \/ \E s \in Stops : StopTake(s)
    \/ \E s \in Stops : StopReturn(s)

----------------------------------------------------------------------------
(* wait_for_network_idle (wait.rs) *)

(* Bounds of the detector model. *)
MaxQueue == 1

IDLE_TIMEOUT == 500
TICK == 100
\* granularity of the clock: events may arrive between two ticks
Quantum == TICK \div 2

Collectors == {"request", "finished", "failed"}

RequestStarted(id) == <<"RequestStarted", id>>
RequestFinished(id) == <<"RequestFinished", id>>

\* mutant: both kinds wait for zero connections
max_connections_zero(k) == 0

max_connections(k) == IF k = "Idle0" THEN 0 ELSE 2

\* request ids: one more than the largest threshold, so that it can be exceeded
Ids == 1..(max_connections("Idle2") + 1)

AddMs(t) == IF t + Quantum >= IDLE_TIMEOUT THEN IDLE_TIMEOUT ELSE t + Quantum

IdleInitWith(k, st) ==
    /\ kind = k
    /\ stream = st
    /\ lst = [c \in Collectors |->
                IF st = "done1" /\ c \in {"request", "finished"} THEN <<1>> ELSE <<>>]
    /\ evq = (IF st = "hold1" THEN <<RequestStarted(1)>> ELSE <<>>)
    /\ senders = Collectors
    /\ pending_requests = {}
    /\ idle_since = <<>>
    /\ sleepLeft = TICK
    /\ ipc = "loop"
    /\ quiet = 0
    /\ why = "none"

IdleInit ==
    \E k \in {"Idle0", "Idle2"} :
        \E st \in {"any", "hold1", "done1"} : IdleInitWith(k, st)

\* the detector is not called
IdleOff == IdleInitWith("Idle0", "any")

\* the requests in progress at the page, when its events are known in advance
RequestsInProgress == IF stream = "hold1" THEN {1} ELSE {}

(* `stream.next().await` of collector c yields the event ev.  Each listener
   delivers its own events in order; nothing orders the three listeners
   among them. *)
Delivers(c, ev) ==
    \/ stream = "any"
    \/ stream = "done1" /\ lst[c] # <<>> /\ ev[2] = Head(lst[c])

(* A collector task forwards an event of its listener into the channel.
   EventLoadingFinished and EventLoadingFailed both become RequestFinished. *)
Forward(c, ev) ==
    /\ Delivers(c, ev)
    /\ ipc = "loop"
    /\ c \in senders
    /\ Len(evq) < MaxQueue
    /\ evq' = Append(evq, ev)
    /\ lst' = (IF lst[c] = <<>> THEN lst ELSE [lst EXCEPT ![c] = Tail(@)])
    /\ UNCHANGED <<kind, stream, senders, pending_requests, idle_since,
                   sleepLeft, ipc, quiet, why>>
    /\ UNCHANGED <<poolVars, supVars>>

RequestTask(id) == Forward("request", RequestStarted(id))

FinishedTask(id) == Forward("finished", RequestFinished(id))

FailedTask(id) == Forward("failed", RequestFinished(id))

\* a listener stream ends: the `while let` of its collector ends, its Sender drops
StreamEnd(c) ==
    /\ stream # "hold1"
    /\ lst[c] = <<>>
    /\ ipc = "loop"
    /\ c \in senders
    /\ senders' = senders \ {c}
    /\ UNCHANGED <<kind, stream, lst, evq, pending_requests, idle_since, sleepLeft,
                   ipc, quiet, why>>
    /\ UNCHANGED <<poolVars, supVars>>

\* select!, `event = rx.recv()` with Some(event)
PendingAfter(ev) ==
    IF ev[1] = "RequestStarted"
    THEN pending_requests \cup {ev[2]}
    ELSE pending_requests \ {ev[2]}

\* mutant: a RequestStarted leaves the recorded instant alone
IdleSinceAfterKeeps(ev) == idle_since

IdleSinceAfter(ev) == IF ev[1] = "RequestStarted" THEN <<>> ELSE idle_since

RecvEvent ==
    /\ ipc = "loop"
    /\ evq # <<>>
    /\ evq' = Tail(evq)
    /\ pending_requests' = PendingAfter(Head(evq))
    /\ idle_since' = IdleSinceAfter(Head(evq))
    /\ sleepLeft' = TICK
    /\ quiet' = (IF Head(evq)[1] = "RequestStarted" THEN 0 ELSE quiet)
    /\ UNCHANGED <<kind, stream, lst, senders, ipc, why>>
    /\ UNCHANGED <<poolVars, supVars>>

\* select!, `event = rx.recv()` with None: every Sender is gone, `break`
RecvClosed ==
    /\ ipc = "loop"
    /\ evq = <<>>
    /\ senders = {}
    /\ ipc' = "returned"
    /\ why' = "closed"
    /\ UNCHANGED <<kind, stream, lst, evq, senders, pending_requests,
                   idle_since, sleepLeft, quiet>>
    /\ UNCHANGED <<poolVars, supVars>>

\* mutant: the first tick that finds an instant recorded ends the wait
WindowElapsedAtOnce(since) == TRUE

\* `since.elapsed() >= IDLE_TIMEOUT`
WindowElapsed(since) == since[1] >= IDLE_TIMEOUT

\* select!, `_ = timeout`
Tick ==
    /\ ipc = "loop"
    /\ sleepLeft = 0
    /\ IF Cardinality(pending_requests) <= max_connections(kind)
       THEN IF idle_since # <<>> /\ WindowElapsed(idle_since)
            THEN /\ ipc' = "returned"
                 /\ why' = "idle"
                 /\ UNCHANGED <<idle_since, sleepLeft>>
            ELSE /\ idle_since' = (IF idle_since = <<>> THEN <<0>> ELSE idle_since)
                 /\ sleepLeft' = TICK
                 /\ UNCHANGED <<ipc, why>>
       ELSE /\ idle_since' = <<>>
            /\ sleepLeft' = TICK
            /\ UNCHANGED <<ipc, why>>
    /\ UNCHANGED <<kind, stream, lst, evq, senders, pending_requests, quiet>>
    /\ UNCHANGED <<poolVars, supVars>>

\* time passes while the loop is suspended in select! with nothing ready
Advance ==
    /\ ipc = "loop"
    /\ sleepLeft > 0
    /\ evq = <<>>
    /\ sleepLeft' = sleepLeft - Quantum
    /\ idle_since' = (IF idle_since = <<>> THEN <<>> ELSE <<AddMs(idle_since[1])>>)
    /\ quiet' = (IF Cardinality(pending_requests) <= max_connections(kind)
                 THEN AddMs(quiet) ELSE 0)
    /\ UNCHANGED <<kind, stream, lst, evq, senders, pending_requests, ipc, why>>
    /\ UNCHANGED <<poolVars, supVars>>

IdleStep == RecvEvent \/ RecvClosed \/ Tick \/ Advance

IdleNext ==
    \/ \E id \in Ids : RequestTask(id)
    \/ \E id \in Ids : FinishedTask(id)
    \/ \E id \in Ids : FailedTask(id)
    \/ \E c \in Collectors : StreamEnd(c)
    \/ RecvEvent
    \/ RecvClosed
    \/ Tick
    \/ Advance

----------------------------------------------------------------------------
(* Specifications: one per subsystem *)

Init == PoolInit /\ SupInit /\ IdleOff

Next == PoolNext

Spec == Init /\ [][Next]_vars

(* The pool with one more call: enough callers for a call to arrive while a
   waiter that was handed a permit has not been polled yet. *)
InitBurst == PoolInitWith(Cap, NumTasks + 1) /\ SupInit /\ IdleOff

SpecBurst == InitBurst /\ [][Next]_vars

\* a step of worker w once it holds its Context
WorkerStep(w) ==
    \/ Recv(w)
    \/ Inner1Ok(w) \/ Inner1Err(w)
    \/ RecreateOk(w) \/ RecreateFail(w)
    \/ \E ok \in BOOLEAN : Inner2Done(w, ok)

\* a step the runtime owes: a worker goes on, or a caller that was handed a
\* permit is woken and polled
PoolStep == (\E w \in WorkerIds : WorkerStep(w)) \/ (\E c \in Tasks : Admit(c))

(* The pool under the runtime's scheduling: while some worker can go on or
   some caller holds a permit it was handed, one of them is polled, and every
   process() and every rebuild comes to an end.  Nothing is assumed of
   make_ctx, of the deadlines or of the moment a call is made. *)
SpecFair == Init /\ [][Next]_vars /\ WF_vars(PoolStep)

SpecSup == Init /\ [][SupNext]_vars

InitIdle == PoolInit /\ SupInit /\ IdleInit

SpecIdle == InitIdle /\ [][IdleNext]_vars

(* The runtime polls a woken task and the clock advances: the detector's own
   steps are weakly fair.  Nothing is assumed of the page. *)
SpecIdleFair == InitIdle /\ [][IdleNext]_vars /\ WF_vars(IdleStep)

(* The same, with time that goes on and a select! that is not unlucky for
   ever: the clock advances again and again whenever the loop is again and
   again found suspended with nothing ready (no behaviour packs infinitely
   many events into a finite time), and the timer branch, which select!
   picks at random among the ready ones, is taken if it is ready again and
   again. *)
SpecIdleTimed ==
    /\ InitIdle /\ [][IdleNext]_vars
    /\ WF_vars(IdleStep) /\ SF_vars(Advance) /\ SF_vars(Tick)

----------------------------------------------------------------------------
(* Properties of the WorkerPool *)

Executing(w) == wpc[w] \in {"inner1", "recreate", "inner2"}

\* Packets alive: queued on the channel or held by a worker
LivePackets == Len(chan) + Cardinality({w \in WorkerIds : cur[w] # NoPacket})

(* C1: in every reachable state the number of live Packets (admitted tasks
   whose permit is not yet released: queued plus executing) is at most cap. *)
C1_LivePacketsAtMostCap == LivePackets <= Cap

\* all cap permits are held by Packets while another caller waits for admission
C1_Witness ==
    /\ LivePackets = Cap
    /\ \E c \in Tasks : cst[c] = "acquiring"
    /\ \E w \in WorkerIds : Executing(w)

\* the value `r` is what an execution of task c produced
ProducedBy(r, c) ==
    /\ r[1] = c
    /\ r[3] \in 1..Len(outs[c])
    /\ r[2] = outs[c][r[3]]

(* C2: every call of queue() gets at most one result written to its oneshot;
   that result was produced by executing the call's own task; a call that
   returned Ok received exactly one result, its own. *)
C2_OneResultOwnCaller ==
    \A c \in Tasks :
        /\ sends[c] <= 1
        /\ slot[c] # Empty => sends[c] = 1 /\ ProducedBy(slot[c], c)
        /\ (ret[c] # <<>> /\ ret[c][1] = "Ok") =>
               /\ sends[c] = 1
               /\ ret[c] = Returned(slot[c])
               /\ ProducedBy(ret[c][2], c)

\* two calls have returned, each with the result of its own task
C2_Witness ==
    \E c, d \in Tasks :
        /\ c # d
        /\ ret[c] = Returned(Ok(c, 1))
        /\ ret[d] # <<>> /\ ret[d][1] = "Ok" /\ ret[d][2][1] = d

\* task c is present somewhere in the pool
InPool(c) ==
    \/ \E i \in 1..Len(chan) : chan[i].tx = c \/ chan[i].task = c
    \/ \E w \in WorkerIds : cur[w].tx = c \/ cur[w].task = c

\* a step of call c made while acquire_owned has not returned
StepBeforePermit(c) ==
    \/ cst[c] = "new" /\ cst'[c] = "acquiring"
    \/ cst[c] = "acquiring" /\ cst'[c] = "returned"

(* C3: a call whose deadline elapsed before it acquired a permit returns the
   timeout error; no Packet for it is ever enqueued, its task is never
   executed, and its steps leave the number of available permits unchanged. *)
C3_AdmissionTimeoutNoEffect ==
    /\ [](\A c \in Tasks : tphase[c] = "admission" =>
              /\ ret[c] = TaskTimedOut
              /\ cst[c] = "returned"
              /\ ~enq[c]
              /\ ~InPool(c)
              /\ execs[c] = 0
              /\ sends[c] = 0)
    /\ [][\A c \in Tasks : StepBeforePermit(c) => permits' = permits]_vars

\* the deadline fired in the wait list while long-running tasks held every
\* permit, and the pool went on to finish them
C3_Witness ==
    \E c \in Tasks :
        /\ tphase[c] = "admission"
        /\ permits = Cap
        /\ \A d \in Tasks \ {c} :
               cst[d] # "unused" => ret[d] # <<>> /\ ret[d][1] = "Ok"

\* caller c gave up with the timeout error while waiting for the result
GaveUp(c) == cst[c] = "returned" /\ ret[c] = TaskTimedOut /\ tphase[c] = "result"

\* this step is the natural end of process() on worker w
Completes(w) ==
    /\ wpc'[w] = "recv"
    /\ cur'[w] = NoPacket
    /\ \/ Len(outs'[cur[w].task]) = Len(outs[cur[w].task]) + 1
       \/ rbout[cur[w].task] = "none" /\ rbout'[cur[w].task] = "failed"

(* C4: when the deadline fires after a worker started the task, the caller
   gets the timeout error and the execution is not cancelled: the worker keeps
   that Packet (and so its permit) and takes no other one until process()
   ends by itself. *)
C4_TimeoutDoesNotCancel ==
    /\ [](permits + LivePackets <= Cap)
    /\ [][\A w \in WorkerIds :
            /\ (Executing(w) /\ cst[cur[w].tx] = "waiting"
                   /\ cst'[cur[w].tx] = "returned" /\ slot[cur[w].tx] = Empty) =>
                  /\ ret'[cur[w].tx] = TaskTimedOut
                  /\ cur'[w] = cur[w]
                  /\ wpc'[w] = wpc[w]
            /\ (Executing(w) /\ GaveUp(cur[w].tx)) =>
                  \/ cur'[w] = cur[w] /\ Executing(w)'
                  \/ Completes(w)]_vars

\* a worker is in the retry of a task whose caller has already timed out
C4_Witness ==
    \E w \in WorkerIds : wpc[w] = "inner2" /\ GaveUp(cur[w].tx)

\* process() has returned for task t
Processed(t) ==
    /\ outs[t] # <<>>
    /\ ~ \E w \in WorkerIds : cur[w].task = t

\* whatever was delivered for task t is the value r
DeliveredIs(t, r) ==
    /\ slot[t] # Empty => slot[t] = r
    /\ (ret[t] # <<>> /\ ret[t][1] = "Ok") => ret[t] = Returned(r)

(* C5: a task is executed at most twice and its Context rebuilt at most once;
   a successful first execution causes no rebuild and no second execution;
   after a failed first execution and a successful rebuild the task is
   executed exactly twice and the outcome of the second execution is the
   delivered result. *)
C5_RetryOnce ==
    \A t \in Tasks :
        /\ execs[t] <= 2
        /\ rebuilds[t] <= 1
        /\ Len(outs[t]) <= execs[t]
        /\ (outs[t] # <<>> /\ outs[t][1] = "ok") =>
               /\ execs[t] = 1 /\ rebuilds[t] = 0 /\ rbout[t] = "none"
               /\ DeliveredIs(t, Ok(t, 1))
        /\ (outs[t] # <<>> /\ outs[t][1] = "err" /\ rbout[t] = "ok") =>
               /\ execs[t] = 2 /\ rebuilds[t] = 1
               /\ Processed(t) =>
                      /\ Len(outs[t]) = 2
                      /\ DeliveredIs(t, <<t, outs[t][2], 2>>)

\* both outcomes of the second execution have been delivered
C5_Witness ==
    \E t, u \in Tasks :
        /\ outs[t] = <<"err", "ok">> /\ ret[t] = Returned(Ok(t, 2))
        /\ outs[u] = <<"err", "err">> /\ ret[u] = Returned(Err(u, 2))

(* C6: when the first execution fails and the rebuild fails too, the task is
   executed exactly once and the delivered error is the one of that
   execution, never the rebuild failure. *)
C6_RebuildFailureKeepsOriginal ==
    \A t \in Tasks :
        rbout[t] = "failed" =>
            /\ execs[t] = 1
            /\ outs[t] = <<"err">>
            /\ rebuilds[t] = 0
            /\ Processed(t)
            /\ DeliveredIs(t, Err(t, 1))

\* the original failure reached the caller after a failed rebuild
C6_Witness ==
    \E t \in Tasks : rbout[t] = "failed" /\ ret[t] = Returned(Err(t, 1))

\* this step is the one in which a worker enters process() for task a
Dispatches(a) == execs[a] = 0 /\ execs'[a] = 1

(* C12: with a single worker the tasks are executed in the order in which
   their queue() calls were made: when a worker enters process() for a task,
   no task submitted after it has been executed already; and a worker always
   takes the Packet at the head of the channel. *)
C12_ExecutionInSubmitOrder ==
    /\ [][Workers = 1 =>
            \A a \in Tasks :
                Dispatches(a) => \A b \in Tasks : a \in before[b] => execs[b] = 0]_vars
    /\ [][\A w \in WorkerIds :
            (cur'[w] # cur[w] /\ cur'[w] # NoPacket) =>
                chan # <<>> /\ cur'[w] = Head(chan) /\ chan' = Tail(chan)]_vars

\* this step hands a permit back to the semaphore
Releases ==
    \/ permits' = permits + 1
    \/ \E d \in Tasks : cst[d] = "acquiring" /\ cst'[d] = "granted"

\* this step ends process() on worker w with an error result
FailingEnd(w) ==
    /\ Executing(w)
    /\ cur'[w] = NoPacket
    /\ \/ wpc[w] = "recreate"
       \/ wpc[w] = "inner2" /\ outs'[cur[w].task][Len(outs'[cur[w].task])] = "err"

(* C13: when a task fails, the error goes to its own caller only: the step
   that ends the failed execution leaves the result and the return value of
   every other call unchanged, leaves the other workers and the queue alone,
   puts the worker back at rx.recv() and releases the permit; a worker never
   ends because of a task. *)
C13_FailureIsIsolated ==
    /\ [][\A w \in WorkerIds :
            FailingEnd(w) =>
                /\ \A d \in Tasks \ {cur[w].tx} : slot'[d] = slot[d] /\ ret'[d] = ret[d]
                /\ slot'[cur[w].tx] # slot[cur[w].tx] =>
                       /\ slot[cur[w].tx] = Empty
                       /\ slot'[cur[w].tx][1] = cur[w].task
                       /\ slot'[cur[w].tx][2] = "err"
                /\ ~is_closed(cur[w].tx) => slot'[cur[w].tx] # Empty
                /\ wpc'[w] = "recv"
                /\ \A v \in WorkerIds \ {w} : wpc'[v] = wpc[v] /\ cur'[v] = cur[v]
                /\ chan' = chan
                /\ Releases]_vars
    /\ [][\A w \in WorkerIds : wpc'[w] = "dead" => wpc[w] \in {"init", "dead"}]_vars

\* after a task failed for good, the worker runs another one whose caller waits
C13_Witness ==
    \E w \in WorkerIds : \E t \in Tasks :
        /\ ret[t] = Returned(Err(t, 2))
        /\ Executing(w)
        /\ cur[w].task # t
        /\ cst[cur[w].tx] = "waiting"

\* process() was entered for task t and has not returned
InProcess(t) ==
    /\ execs[t] > 0
    /\ ~ (/\ outs[t] # <<>>
          /\ \/ outs[t][Len(outs[t])] = "ok"
             \/ rbout[t] = "failed"
             \/ Len(outs[t]) = 2)

\* this step pushes the Packet of call c on the channel
Admits(c) == ~enq[c] /\ enq'[c]

(* C15: a permit goes back to the semaphore only in a step that drops a
   Packet (after its result was sent, or unexecuted), never when execution
   starts; a call that finds a permit free is admitted at once, a call is
   admitted only while fewer than cap Packets are alive, and with one worker
   a task enters process() only when no other task is in it. *)
C15_PermitHeldUntilSent ==
    /\ [][Releases =>
            \/ LivePackets' = LivePackets - 1
            \/ \E c \in Tasks : ret[c] = <<>> /\ ret'[c] = SendFailed]_vars
    /\ [][\A a \in Tasks :
            Dispatches(a) =>
                /\ permits' = permits /\ waiters' = waiters /\ cst' = cst
                /\ LivePackets' = LivePackets
                /\ Workers = 1 => \A b \in Tasks : ~InProcess(b)]_vars
    /\ [][\A c \in Tasks :
            /\ (cst[c] = "new" /\ cst'[c] # "new" /\ permits > 0 /\ ~ChannelClosed)
                   => Admits(c)
            /\ Admits(c) => LivePackets < Cap /\ LivePackets' = LivePackets + 1]_vars

\* the first result has been sent and its permit handed to the caller that
\* waited, while the other admitted Packet is still queued, unexecuted
C15_Witness ==
    \E a, b, c \in Tasks :
        /\ slot[a] # Empty /\ sends[a] = 1
        /\ cst[c] = "granted"
        /\ chan # <<>> /\ chan[1].tx = b /\ execs[b] = 0
        /\ permits = 0
        /\ \A w \in WorkerIds : ~Executing(w)

\* this step takes from the channel a Packet whose caller has given up
PullsAbandoned == chan # <<>> /\ chan' = Tail(chan) /\ is_closed(Head(chan).tx)

(* C16: a Packet pulled after its caller gave up is dropped unexecuted: the
   step invokes no process(), releases the permit and leaves every worker at
   rx.recv() or at its own task; the task of a caller that gave up before
   any worker pulled its Packet is never executed. *)
C16_AbandonedPacketSkipped ==
    /\ [][PullsAbandoned =>
            /\ execs' = execs
            /\ cur' = cur
            /\ wpc' = wpc
            /\ slot' = slot
            /\ Releases]_vars
    /\ [][\A c \in Tasks : (GaveUp(c) /\ execs[c] = 0) => execs'[c] = 0]_vars

\* a Packet was dropped unexecuted and the worker went on to the next one
C16_Witness ==
    \E c \in Tasks : \E w \in WorkerIds :
        /\ GaveUp(c) /\ enq[c] /\ execs[c] = 0 /\ ~InPool(c)
        /\ Executing(w) /\ cur[w].tx # c

(* C17: at most `workers` tasks are in process() at any time, every task in
   process() is held by exactly one worker and every worker holds at most
   one, whatever cap is; the page of a worker's Context changes only in that
   worker's own recreate_page. *)
C17_WorkersBoundParallelism ==
    /\ [](/\ Cardinality({t \in Tasks : InProcess(t)}) <= Workers
          /\ \A t \in Tasks :
                InProcess(t) <=>
                    \E w \in WorkerIds : Executing(w) /\ cur[w].task = t
          /\ \A v, w \in WorkerIds :
                (v # w /\ cur[v] # NoPacket) => cur[v] # cur[w]
          /\ \A w \in WorkerIds : Executing(w) <=> cur[w] # NoPacket)
    /\ [][\A w \in WorkerIds :
            page'[w] # page[w] =>
                /\ wpc[w] = "recreate"
                /\ \A v \in WorkerIds \ {w} : page'[v] = page[v]]_vars

\* every worker is busy while admitted Packets wait in the queue
C17_Witness ==
    /\ \A w \in WorkerIds : Executing(w)
    /\ chan # <<>>
    /\ LivePackets > Workers

(* C19: the error returned to a caller whose deadline elapsed before it got a
   permit differs from the one returned to a caller whose deadline elapsed
   while it awaited the result. *)
C19_TimeoutsDistinguishable ==
    \A c, d \in Tasks :
        (tphase[c] = "admission" /\ tphase[d] = "result") => ret[c] # ret[d]

\* call c holds a permit: handed to it by the semaphore, or inside its Packet
HoldsPermit(c) ==
    \/ cst[c] = "granted"
    \/ \E i \in 1..Len(chan) : chan[i].tx = c
    \/ \E w \in WorkerIds : cur[w].tx = c

\* some worker obtained its Context (it keeps it: such a worker never ends)
SomeCtx == \E w \in WorkerIds : wpc[w] \notin {"init", "dead"}

(* C23: provided every execution terminates and some worker obtained its
   Context, every permit acquired by a call is eventually released, whether
   its task succeeds, fails, or its caller timed out while the Packet was
   queued or executing; the permits held and the available ones always add up
   to cap, so the available capacity is eventually cap again for good. *)
C23_PermitsEventuallyReleased ==
    /\ [](permits + Cardinality({c \in Tasks : HoldsPermit(c)}) = Cap)
    /\ <>[]SomeCtx =>
           <>[](permits = Cap /\ \A c \in Tasks : ~HoldsPermit(c))

\* all permits are back after one caller gave up with its Packet still queued,
\* one gave up during the execution, and one task failed
C23_Witness ==
    /\ permits = Cap
    /\ SomeCtx
    /\ \E c \in Tasks : tphase[c] = "result" /\ enq[c] /\ execs[c] = 0
    /\ \E c \in Tasks : tphase[c] = "result" /\ execs[c] > 0
    /\ \E c \in Tasks : Len(ret[c]) = 2 /\ ret[c][2][2] = "err"

----------------------------------------------------------------------------
(* Properties of the Supervisor *)

\* run() was called for loop l
Started(l) == runpc[l] # "none"

\* some process launched by loop l is running
Running(l) == alive[l] \/ orphans[l] > 0

(* C7: when stop() returns, every control loop that run() had started when
   stop() was called has terminated and no process of it is running; a
   terminated loop stays terminated, so it never launches again. *)
C7_StopIsTerminal ==
    /\ [][\A s \in Stops :
            (spc[s] = "joining" /\ spc'[s] = "returned") =>
                \A l \in atSend[s] : lpc[l] = "exited" /\ ~Running(l)]_vars
    /\ [][\A l \in Loops : lpc[l] = "exited" => lpc'[l] = "exited"]_vars

\* the loop observes, in select!, that its process has exited
ExitObserved(l) ==
    /\ lpc[l] = "select"
    /\ proc[l] = "Some"
    /\ ~alive[l]
    /\ lpc'[l] # "select"

(* C8: a process exit observed with no Interrupt pending always starts a
   relaunch; one observed while an Interrupt is pending never does, the loop
   goes on to stop instead. *)
C8_RelaunchUnlessInterrupt ==
    [][\A l \in Loops :
         ExitObserved(l) =>
             IF rxq[l] = 0
             THEN lpc'[l] = "relaunch"
             ELSE lpc'[l] \in {"stopping", "exited"}]_vars

\* the processes launched for definition l that are running
LiveProcesses(l) == (IF alive[l] THEN 1 ELSE 0) + orphans[l]

(* C14: for each managed definition at most one launched process is running
   at any time, and a launch is made only when the process launched before
   is no longer running. *)
C14_AtMostOneLiveProcess ==
    /\ [](\A l \in Loops : LiveProcesses(l) <= 1)
    /\ [][\A l \in Loops :
            (lpc[l] \in {"launch", "relaunch"} /\ lpc'[l] = "select") =>
                LiveProcesses(l) = 0]_vars

\* the loop sits in select! after a failed launch, in its backoff
InBackoff(l) == lpc[l] = "select" /\ proc[l] = "None"

(* C18: a failed launch leaves the loop running with no process; from the
   backoff the loop launches again when no Interrupt has arrived, and ends
   without a further launch when one has; the loop ends only through an
   Interrupt. *)
C18_LaunchFailureBacksOff ==
    /\ [][\A l \in Loops :
            (lpc[l] \in {"launch", "relaunch"} /\ lpc'[l] # lpc[l]) =>
                lpc'[l] = "select" /\ proc'[l] \in {"Some", "None"}]_vars
    /\ [][\A l \in Loops :
            (InBackoff(l) /\ lpc'[l] # lpc[l]) =>
                IF rxq[l] = 0
                THEN lpc'[l] = "relaunch"
                ELSE lpc'[l] = "exited"]_vars
    /\ [][\A l \in Loops :
            (lpc[l] # "exited" /\ lpc'[l] = "exited") =>
                \/ lpc[l] = "select" /\ rxq[l] > 0
                \/ lpc[l] = "stopping"]_vars

(* C22: for any interleaving of run() and stop(), stop() awaits exactly the
   loops that receive its Interrupt: every loop whose handle it joins had
   subscribed when the Interrupt was sent, and when it returns every loop that
   had subscribed by then was joined by it (or had ended already). *)
C22_StopJoinsExactlyInterrupted ==
    /\ [](\A s \in Stops : handles[s] \subseteq atSend[s])
    /\ [](\A s \in Stops :
            spc[s] = "returned" =>
                \A l \in atSend[s] : l \in handles[s] \/ lpc[l] = "exited")

----------------------------------------------------------------------------
(* Properties of wait_for_network_idle *)

\* the count stayed within the threshold, with no RequestStarted processed,
\* for the whole stability window that a tick opened
WindowObserved ==
    /\ Cardinality(pending_requests) <= max_connections(kind)
    /\ quiet >= IDLE_TIMEOUT
    /\ idle_since # <<>> /\ idle_since[1] >= IDLE_TIMEOUT

(* C9 as stated: the wait returns only after the pending count stayed at or
   below the threshold for the full stability window, never while the count
   is above the threshold. *)
C9_ReturnsOnlyAfterWindow == ipc = "returned" => WindowObserved

(* C9, amended: the wait returns either because the event channel closed (all
   three listener streams ended and the channel is drained), whatever the
   count, or only after the pending count stayed at or below the threshold
   for the full stability window with no RequestStarted processed in it. *)
C9_ReturnsAfterWindowOrClosed ==
    ipc = "returned" =>
        \/ why = "closed" /\ senders = {} /\ evq = <<>>
        \/ why = "idle" /\ WindowObserved

\* Idle2 declared idle with two requests still pending
C9_Witness ==
    /\ ipc = "returned"
    /\ why = "idle"
    /\ kind = "Idle2"
    /\ Cardinality(pending_requests) = 2

(* C10: on a stream that keeps exactly one request in flight for ever, the
   wait with Idle2 eventually returns, after a full stability window, and the
   wait with Idle0 never returns. *)
C10_Idle2ReturnsIdle0Never ==
    /\ (stream = "hold1" /\ kind = "Idle2") ~>
           (ipc = "returned" /\ why = "idle" /\ quiet >= IDLE_TIMEOUT
               /\ pending_requests = {1})
    /\ [](stream = "hold1" /\ kind = "Idle0" => ipc = "loop")

\* the Idle2 wait has returned with the one request still pending
C10_Witness ==
    /\ stream = "hold1"
    /\ kind = "Idle2"
    /\ ipc = "returned"
    /\ pending_requests = {1}

\* nothing is on its way to the detector
Drained == evq = <<>> /\ \A c \in Collectors : lst[c] = <<>>

\* this step processes a finished or failed event for an id that is not pending
EndOfAbsent ==
    /\ evq # <<>> /\ evq' = Tail(evq)
    /\ Head(evq)[1] = "RequestFinished"
    /\ Head(evq)[2] \notin pending_requests

(* C11: once every event was processed, whatever the order in which the three
   streams were merged, the pending set holds only ids of requests that are
   in progress; a finished or failed event for an id that is not pending
   changes nothing, and the pending count is never negative. *)
C11_PendingOnlyUnfinished ==
    /\ []((stream # "any" /\ Drained) => pending_requests \subseteq RequestsInProgress)
    /\ [][EndOfAbsent =>
            pending_requests' = pending_requests /\ idle_since' = idle_since]_vars
    /\ [](Cardinality(pending_requests) >= 0)

\* no RequestStarted is on its way and the count is within the threshold
CalmNow ==
    /\ \A i \in 1..Len(evq) : evq[i][1] # "RequestStarted"
    /\ \A c \in Collectors : lst[c] = <<>> \/ c # "request"
    /\ Cardinality(pending_requests) <= max_connections(kind)

(* C20: if from some point on no started event arrives and the pending count
   stays at or below the threshold, the wait eventually returns, also while
   finished or failed events keep arriving. *)
C20_ReturnsWhenCalm == <>[]CalmNow => <>(ipc = "returned")

\* this step processes a started event
StartedProcessed ==
    evq # <<>> /\ evq' = Tail(evq) /\ Head(evq)[1] = "RequestStarted"

(* C21: whenever an idle-start instant is recorded, the pending count is at
   or below the threshold of the kind: every started event clears the instant,
   also when the count stays within the threshold, and the instant is only
   recorded by a tick that finds the count within the threshold. *)
C21_TimestampImpliesWithinThreshold ==
    /\ [](idle_since # <<>> =>
              Cardinality(pending_requests) <= max_connections(kind))
    /\ [][StartedProcessed => idle_since' = <<>>]_vars
    /\ [][idle_since = <<>> /\ idle_since' # <<>> =>
              /\ sleepLeft = 0
              /\ pending_requests' = pending_requests
              /\ Cardinality(pending_requests) <= max_connections(kind)]_vars

\* under Idle2 a tick recorded an instant with two requests pending, and time
\* went on since
C21_Witness ==
    /\ ipc = "loop"
    /\ kind = "Idle2"
    /\ stream = "any"
    /\ idle_since # <<>>
    /\ idle_since[1] > 0
    /\ Cardinality(pending_requests) = 2

====
